---- MODULE Spec2Model ----
(***************************************************************************)
(* Model of core/views.py: stream_view and its nested stream_generator.   *)
(*                                                                         *)
(* Several requests run stream_view concurrently.  Each one scans the     *)
(* M3U account's profiles for a free slot, guarded by a PersistentLock on *)
(* the key lock:{profile.id}:{stream_index}, prepares the command, starts *)
(* the producer process and relays its output through a generator whose   *)
(* finally-block terminates the process and releases the lock.            *)
(*                                                                         *)
(* Requests interleave at every access to the Lock Store and at every     *)
(* point where the generator is suspended or blocked.                     *)
(***************************************************************************)
EXTENDS Integers, Sequences, FiniteSets, TLC

\* ----------------------------------------------------------------- bounds
MaxProfiles == 2
MaxStreams == 2
MaxChunks == 2

\* Two requests run stream_view concurrently; their numbers are their lock tokens.
Requests == {1, 2}

\* ------------------------------------------------------------------ state
VARIABLES
    m3u_profiles,   \* the account's profile rows, in the order the database returns them
    channel,        \* what the lookup of the request's stream_id found
    store,          \* the Lock Store: key -> holder token (a request), Free when absent
    pc,             \* each request's position in stream_view / stream_generator
    profile_pos,    \* position of the for-loop over [default_profile] + profiles
    stream_index,   \* the while-loop's stream_index
    persistent_lock,\* key of the lock the request acquired, NoLock when None
    attempts,       \* history: the acquire() calls made, in order, with their results
    active_profile, \* the patterns of the row re-read on line 96
    response,       \* the response stream_view returned
    cause,          \* why the request ended
    process,        \* the producer process of the request
    term_asked,     \* proc.terminate() has been called
    term_raised,    \* that call raised
    releases,       \* number of persistent_lock.release() calls made
    sent,           \* number of non-empty chunks read from proc.stdout
    yielded         \* history: the chunks yielded to the client, in order

vars == <<m3u_profiles, channel, store, pc, profile_pos, stream_index, persistent_lock,
          attempts, active_profile, response, cause, process, term_asked,
          term_raised, releases, sent, yielded>>

\* ------------------------------------------------------------ the account
\* None, for default_profile when no row has is_default set (line 65).
NoProfile == [id |-> 0, is_default |-> FALSE, is_active |-> FALSE, max_streams |-> 0]

\* The rows m3u_account.profiles.all() can return (line 64): up to MaxProfiles
\* rows, ids in database order, at most one of them the default, each with its
\* is_active flag and a positive max_streams.  The loop never reads the
\* max_streams of an inactive row (line 76), so such rows all carry 1.
ProfileRows(n, d) ==
    { [i \in 1..n |-> [id |-> i, is_default |-> (i = d),
                       is_active |-> (m[i] > 0),
                       max_streams |-> IF m[i] > 0 THEN m[i] ELSE 1]] :
        m \in [1..n -> 0..MaxStreams] }

AccountProfiles ==
    UNION { UNION { ProfileRows(n, d) : d \in 0..n } : n \in 1..MaxProfiles }

\* A lookup that falls back to the first row when no row is the default.
default_profile_FirstRow ==
    IF \E i \in DOMAIN m3u_profiles : m3u_profiles[i].is_default
    THEN m3u_profiles[CHOOSE i \in DOMAIN m3u_profiles :
                        /\ m3u_profiles[i].is_default
                        /\ \A j \in 1..(i - 1) : ~m3u_profiles[j].is_default]
    ELSE m3u_profiles[1]

\* default_profile = next((obj for obj in m3u_profiles if obj.is_default), None)
default_profile ==
    IF \E i \in DOMAIN m3u_profiles : m3u_profiles[i].is_default
    THEN m3u_profiles[CHOOSE i \in DOMAIN m3u_profiles :
                        /\ m3u_profiles[i].is_default
                        /\ \A j \in 1..(i - 1) : ~m3u_profiles[j].is_default]
    ELSE NoProfile

IsNotDefault(obj) == ~obj.is_default

\* profiles = [obj for obj in m3u_profiles if not obj.is_default]
profiles == SelectSeq(m3u_profiles, IsNotDefault)

\* A scan that walks the rows as the database returned them.
ScanOrder_DbOrder == m3u_profiles

\* the list the for-loop walks: [default_profile] + profiles
ScanOrder == <<default_profile>> \o profiles

\* ----------------------------------------------------------- the Lock Store
Free == 0

\* lock_key = f"lock:{profile.id}:{stream_index}"
lock_key(profile, index) == <<profile.id, index>>

Keys == (1..MaxProfiles) \X (1..MaxStreams)

NoLock == <<0, 0>>

\* PersistentLock.acquire(): set the key if it is absent; true when it was set.
AcquireSucceeds(k) == store[k] = Free

StoreAfterAcquire(r, k) == [store EXCEPT ![k] = r]

\* PersistentLock.release(): delete the key if this holder still owns it.
StoreAfterRelease(r, k) ==
    IF k # NoLock /\ store[k] = r THEN [store EXCEPT ![k] = Free] ELSE store

\* ---------------------------------------------------------- the URL rewrite
\* search_pattern values and the number of capture groups each has.
SearchPatterns == {".*", "(.*)"}

Groups(search_pattern) == IF search_pattern = "(.*)" THEN 1 ELSE 0

\* replace_pattern values, as token sequences.
ReplacePatterns == {<<"$1", "proxy">>}

NoPatterns == [search_pattern |-> "", replace_pattern |-> <<>>]

PatternRows == [search_pattern : SearchPatterns, replace_pattern : ReplacePatterns]

\* safe_replace_pattern = re.sub(r'\$(\d+)', r'\\\1', replace_pattern):
\* every $n becomes the group reference \n.
safe_replace_pattern(replace_pattern) ==
    [i \in DOMAIN replace_pattern |->
        IF replace_pattern[i] = "$1" THEN "\\1" ELSE replace_pattern[i]]

\* re.sub(search_pattern, template, input_url) raises re.error when the
\* template refers to a group the pattern does not have.
ReSubRaises(search_pattern, template) ==
    \E i \in DOMAIN template : template[i] = "\\1" /\ Groups(search_pattern) < 1

\* ------------------------------------------------------------------- Init
Init ==
    /\ m3u_profiles \in AccountProfiles
    /\ channel = [r \in Requests |-> "none"]
    /\ store = [k \in Keys |-> Free]
    /\ pc = [r \in Requests |-> "start"]
    /\ profile_pos = [r \in Requests |-> 1]
    /\ stream_index = [r \in Requests |-> 0]
    /\ persistent_lock = [r \in Requests |-> NoLock]
    /\ attempts = [r \in Requests |-> <<>>]
    /\ active_profile = [r \in Requests |-> NoPatterns]
    /\ response = [r \in Requests |-> "none"]
    /\ cause = [r \in Requests |-> "none"]
    /\ process = [r \in Requests |-> "none"]
    /\ term_asked = [r \in Requests |-> FALSE]
    /\ term_raised = [r \in Requests |-> FALSE]
    /\ releases = [r \in Requests |-> 0]
    /\ sent = [r \in Requests |-> 0]
    /\ yielded = [r \in Requests |-> <<>>]

\* --------------------------------------------------- stream_view: responses
\* except Exception as e: return HttpResponseServerError("Error preparing stream")
\* The handler returns the response and touches nothing else.
ErrorPreparing(r, why) ==
    /\ pc' = [pc EXCEPT ![r] = "done"]
    /\ response' = [response EXCEPT ![r] = "ErrorPreparing"]
    /\ cause' = [cause EXCEPT ![r] = why]

\* return HttpResponseServerError(<message>) from inside the try block
ServerError(r, message) ==
    /\ pc' = [pc EXCEPT ![r] = "done"]
    /\ response' = [response EXCEPT ![r] = message]
    /\ cause' = [cause EXCEPT ![r] = message]

\* --------------------------------------- stream_view: channel and profiles
\* What Channel.objects.get / channel.streams can yield for the stream_id.
ChannelLookups == {"missing", "no_streams", "ok"}

\* Line 43: Channel.objects.get raises DoesNotExist for an unknown number.
ChannelExists(chan) == chan # "missing"

\* A handler that does not look at channel.streams.exists().
HasStreams_Unchecked(chan) == TRUE

\* Line 47: channel.streams.exists()
HasStreams(chan) == chan # "no_streams"

\* Lines 43-73: resolve the channel, require a stream, build the profile list
\* and enter the loop.  A missing default makes the loop's first profile None,
\* whose .name raises on line 73.
ResolveChannel(r, chan) ==
    /\ pc[r] = "start"
    /\ channel' = [channel EXCEPT ![r] = chan]
    /\ IF ~ChannelExists(chan) THEN ErrorPreparing(r, "ChannelNotFound")
       ELSE IF ~HasStreams(chan) THEN ServerError(r, "NoStreamFound")
       ELSE IF default_profile = NoProfile THEN ErrorPreparing(r, "NoDefaultProfile")
       ELSE /\ pc' = [pc EXCEPT ![r] = "scan"]
            /\ UNCHANGED <<response, cause>>
    /\ UNCHANGED <<m3u_profiles, store, profile_pos, stream_index, persistent_lock,
                   attempts, active_profile, process, term_asked, term_raised,
                   releases, sent, yielded>>

\* ------------------------------------------------ stream_view: the slot scan
Scanning(r) == pc[r] = "scan" /\ profile_pos[r] <= Len(ScanOrder)

CurrentProfile(r) == ScanOrder[profile_pos[r]]

\* Lines 74-76: an inactive profile is skipped.
SkipInactive(r) ==
    /\ Scanning(r)
    /\ ~CurrentProfile(r).is_active
    /\ profile_pos' = [profile_pos EXCEPT ![r] = @ + 1]
    /\ stream_index' = [stream_index EXCEPT ![r] = 0]
    /\ UNCHANGED <<m3u_profiles, channel, store, pc, persistent_lock, attempts, active_profile,
                   response, cause, process, term_asked, term_raised, releases, sent, yielded>>

\* persistent_lock.acquire() on key k: it raises when the Lock Store cannot be
\* reached, and otherwise reports whether it set the key.
acquire(k, store_down) ==
    IF store_down THEN "raised"
    ELSE IF AcquireSucceeds(k) THEN "acquired" ELSE "in_use"

\* The Lock Store after that call.
StoreAfter(r, k, result) ==
    IF result = "acquired" THEN StoreAfterAcquire(r, k) ELSE store

\* Line 87 without the test: whatever acquire() returns, the loop breaks.
AcquireBranch_NoCheck(result) ==
    IF result = "raised" THEN "except" ELSE "break"

\* Line 87 inside a handler that takes an exception for a slot in use.
AcquireBranch_Swallow(result) ==
    IF result = "acquired" THEN "break" ELSE "continue"

\* Line 87, `if not persistent_lock.acquire():` with no handler around it: an
\* exception leaves the try block (line 141), False takes lines 88-90, True
\* reaches the break on line 92.
AcquireBranch(result) ==
    IF result = "raised" THEN "except"
    ELSE IF result = "acquired" THEN "break" ELSE "continue"

\* A while-loop that tries the same slot again when it is in use, waiting for
\* it to become free.
AttemptSlot_Retry(r, store_down) ==
    /\ Scanning(r)
    /\ CurrentProfile(r).is_active
    /\ stream_index[r] < CurrentProfile(r).max_streams
    /\ LET index == stream_index[r] + 1
           k == lock_key(CurrentProfile(r), index)
           result == acquire(k, store_down)
           branch == AcquireBranch(result)
       IN  /\ stream_index' = [stream_index EXCEPT ![r] =
                                  IF branch = "continue" THEN @ ELSE index]
           /\ store' = StoreAfter(r, k, result)
           /\ attempts' = [attempts EXCEPT ![r] = Append(@, <<k, result>>)]
           /\ IF branch = "except"
              THEN /\ ErrorPreparing(r, "LockStoreError")
                   /\ UNCHANGED persistent_lock
              ELSE IF branch = "break"
              THEN /\ persistent_lock' = [persistent_lock EXCEPT ![r] = k]
                   /\ pc' = [pc EXCEPT ![r] = "prepare"]
                   /\ UNCHANGED <<response, cause>>
              ELSE UNCHANGED <<persistent_lock, pc, response, cause>>
    /\ UNCHANGED <<m3u_profiles, channel, profile_pos, active_profile, process, term_asked,
                   term_raised, releases, sent, yielded>>

\* Lines 80-97: one turn of the while-loop.  After the break, line 94 finds
\* persistent_lock set and leaves the for-loop too.
AttemptSlot(r, store_down) ==
    /\ Scanning(r)
    /\ CurrentProfile(r).is_active
    /\ stream_index[r] < CurrentProfile(r).max_streams
    /\ LET index == stream_index[r] + 1
           k == lock_key(CurrentProfile(r), index)
           result == acquire(k, store_down)
           branch == AcquireBranch(result)
       IN  /\ stream_index' = [stream_index EXCEPT ![r] = index]
           /\ store' = StoreAfter(r, k, result)
           /\ attempts' = [attempts EXCEPT ![r] = Append(@, <<k, result>>)]
           /\ IF branch = "except"
              THEN /\ ErrorPreparing(r, "LockStoreError")
                   /\ UNCHANGED persistent_lock
              ELSE IF branch = "break"
              THEN /\ persistent_lock' = [persistent_lock EXCEPT ![r] = k]
                   /\ pc' = [pc EXCEPT ![r] = "prepare"]
                   /\ UNCHANGED <<response, cause>>
              ELSE UNCHANGED <<persistent_lock, pc, response, cause>>
    /\ UNCHANGED <<m3u_profiles, channel, profile_pos, active_profile, process, term_asked,
                   term_raised, releases, sent, yielded>>

\* A for-loop that gives up after the first active profile with no free slot.
NextProfile_Stop(r) ==
    /\ Scanning(r)
    /\ CurrentProfile(r).is_active
    /\ stream_index[r] >= CurrentProfile(r).max_streams
    /\ profile_pos' = [profile_pos EXCEPT ![r] = Len(ScanOrder) + 1]
    /\ stream_index' = [stream_index EXCEPT ![r] = 0]
    /\ UNCHANGED <<m3u_profiles, channel, store, pc, persistent_lock, attempts,
                   active_profile, response, cause, process, term_asked,
                   term_raised, releases, sent, yielded>>

\* A for-loop whose body does not set stream_index back to 0 (line 79).
NextProfile_NoReset(r) ==
    /\ Scanning(r)
    /\ CurrentProfile(r).is_active
    /\ stream_index[r] >= CurrentProfile(r).max_streams
    /\ profile_pos' = [profile_pos EXCEPT ![r] = @ + 1]
    /\ UNCHANGED <<m3u_profiles, channel, store, pc, stream_index, persistent_lock,
                   attempts, active_profile, response, cause, process, term_asked,
                   term_raised, releases, sent, yielded>>

\* Lines 80, 94: the while-loop ran out of indices with persistent_lock None;
\* the for-loop takes the next profile.
NextProfile(r) ==
    /\ Scanning(r)
    /\ CurrentProfile(r).is_active
    /\ stream_index[r] >= CurrentProfile(r).max_streams
    /\ profile_pos' = [profile_pos EXCEPT ![r] = @ + 1]
    /\ stream_index' = [stream_index EXCEPT ![r] = 0]
    /\ UNCHANGED <<m3u_profiles, channel, store, pc, persistent_lock, attempts, active_profile,
                   response, cause, process, term_asked, term_raised, releases, sent, yielded>>

\* A view without the test of line 99: it goes on to line 103 with no lock.
NoAvailableProfiles_Unchecked(r) ==
    /\ pc[r] = "scan"
    /\ profile_pos[r] > Len(ScanOrder)
    /\ pc' = [pc EXCEPT ![r] = "prepare"]
    /\ UNCHANGED <<m3u_profiles, channel, store, profile_pos, stream_index, persistent_lock,
                   attempts, active_profile, response, cause, process, term_asked,
                   term_raised, releases, sent, yielded>>

\* Lines 99-101: the for-loop ended with no lock.
NoAvailableProfiles(r) ==
    /\ pc[r] = "scan"
    /\ profile_pos[r] > Len(ScanOrder)
    /\ ServerError(r, "NoAvailableProfiles")
    /\ UNCHANGED <<m3u_profiles, channel, store, profile_pos, stream_index, persistent_lock,
                   attempts, active_profile, process, term_asked, term_raised,
                   releases, sent, yielded>>

\* ------------------------------------------- stream_view: lines 96 to 131
\* What can go wrong between the lock and the launch, besides the rewrite:
\* the re-read of the profile (line 96), the default StreamProfile lookup
\* (line 117), the parameter template (line 126).
PrepareFaults == {"none", "ProfileLookup", "StreamProfileLookup", "FormatError"}

\* Lines 96-131.  row is what M3UAccountProfile.objects.get returns.  Every
\* exception here is caught on line 141, which returns the error response.
Prepare(r, row, fault) ==
    /\ pc[r] = "prepare"
    /\ IF fault = "ProfileLookup"
       THEN /\ ErrorPreparing(r, fault)
            /\ UNCHANGED active_profile
       ELSE /\ active_profile' = [active_profile EXCEPT ![r] = row]
            /\ IF ReSubRaises(row.search_pattern,
                              safe_replace_pattern(row.replace_pattern))
               THEN ErrorPreparing(r, "RewriteError")
               ELSE IF fault # "none"
               THEN ErrorPreparing(r, fault)
               ELSE /\ pc' = [pc EXCEPT ![r] = "launch"]
                    /\ UNCHANGED <<response, cause>>
    /\ UNCHANGED <<m3u_profiles, channel, store, profile_pos, stream_index, persistent_lock,
                   attempts, process, term_asked, term_raised, releases, sent, yielded>>

\* ------------------------------------------- stream_view: lines 133 to 139
\* Lines 136-139 without the release on line 137.
PopenFailed_NoRelease(r) ==
    /\ ServerError(r, "ErrorStarting")
    /\ UNCHANGED <<store, releases, process>>

\* Lines 136-139 without the return: the handler releases the lock and goes
\* on to line 161, so the generator's finally releases it again.
PopenFailed_NoReturn(r) ==
    /\ store' = StoreAfterRelease(r, persistent_lock[r])
    /\ releases' = [releases EXCEPT ![r] = @ + 1]
    /\ pc' = [pc EXCEPT ![r] = "created"]
    /\ response' = [response EXCEPT ![r] = "Streaming"]
    /\ UNCHANGED <<cause, process>>

\* except Exception as e: persistent_lock.release(); return the error.
PopenFailed(r) ==
    /\ store' = StoreAfterRelease(r, persistent_lock[r])
    /\ releases' = [releases EXCEPT ![r] = @ + 1]
    /\ ServerError(r, "ErrorStarting")
    /\ UNCHANGED process

\* Lines 133-139 and 161-164: subprocess.Popen either starts the producer, and
\* the response with the not yet started generator is returned, or raises.
Launch(r, started) ==
    /\ pc[r] = "launch"
    /\ IF started
       THEN /\ process' = [process EXCEPT ![r] = "running"]
            /\ pc' = [pc EXCEPT ![r] = "created"]
            /\ response' = [response EXCEPT ![r] = "Streaming"]
            /\ UNCHANGED <<store, releases, cause>>
       ELSE PopenFailed(r)
    /\ UNCHANGED <<m3u_profiles, channel, profile_pos, stream_index, persistent_lock, attempts,
                   active_profile, term_asked, term_raised, sent, yielded>>

\* ------------------------------------------------------- stream_generator
\* A finally without the inner try: what terminate() raises leaves the
\* generator before line 158.
AfterTerminate_Propagate(raised) == IF raised THEN "done" ELSE "release"

\* Lines 153-157: where the finally goes after proc.terminate(); the except
\* clause logs what terminate() raised and falls through to line 158.
AfterTerminate(raised) == "release"

\* A finally that only releases the lock: proc.terminate() is never called.
Finally_NoTerminate(r, why, raised) ==
    /\ cause' = [cause EXCEPT ![r] = why]
    /\ pc' = [pc EXCEPT ![r] = "release"]
    /\ UNCHANGED <<term_asked, term_raised, process>>

\* Lines 152-157: the finally is entered and proc.terminate() is called, which
\* may raise.  why is what ended the loop.
Finally(r, why, raised) ==
    /\ cause' = [cause EXCEPT ![r] = why]
    /\ term_asked' = [term_asked EXCEPT ![r] = TRUE]
    /\ term_raised' = [term_raised EXCEPT ![r] = raised]
    /\ process' = [process EXCEPT ![r] =
                      IF why = "EndOfStream" THEN "exited"
                      ELSE IF raised THEN @ ELSE "terminated"]
    /\ pc' = [pc EXCEPT ![r] = AfterTerminate(raised)]

\* The producer's output as proc.stdout.read(8192) returns it: the n-th
\* non-empty read returns the n-th chunk, and a read at the end returns the
\* empty chunk.
Chunk(n) == n

EmptyChunk == Chunk(0)

\* The generator can be resumed: it was never started, or it is suspended at
\* the yield of line 151.
Resumable(r) == pc[r] \in {"created", "suspended"}

\* A loop that writes the key again under its token with every chunk it relays.
ReadChunk_Renew(r) ==
    /\ Resumable(r)
    /\ sent[r] < MaxChunks
    /\ sent' = [sent EXCEPT ![r] = @ + 1]
    /\ yielded' = [yielded EXCEPT ![r] = Append(@, Chunk(sent[r] + 1))]
    /\ pc' = [pc EXCEPT ![r] = "suspended"]
    /\ store' = IF persistent_lock[r] # NoLock
                THEN [store EXCEPT ![persistent_lock[r]] = r] ELSE store
    /\ UNCHANGED <<m3u_profiles, channel, profile_pos, stream_index, persistent_lock,
                   attempts, active_profile, response, cause, process, term_asked,
                   term_raised, releases>>

\* Lines 147-151: the server asks for the next chunk, proc.stdout.read(8192)
\* returns the next chunk of the producer's output and it is yielded.
ReadChunk(r) ==
    /\ Resumable(r)
    /\ sent[r] < MaxChunks
    /\ sent' = [sent EXCEPT ![r] = @ + 1]
    /\ yielded' = [yielded EXCEPT ![r] = Append(@, Chunk(sent[r] + 1))]
    /\ pc' = [pc EXCEPT ![r] = "suspended"]
    /\ UNCHANGED <<m3u_profiles, channel, store, profile_pos, stream_index, persistent_lock,
                   attempts, active_profile, response, cause, process, term_asked,
                   term_raised, releases>>

\* A loop that yields what it read before testing it (lines 149 and 151
\* exchanged): the empty chunk reaches the client.
ReadEnd_YieldFirst(r, raised) ==
    /\ Resumable(r)
    /\ Finally(r, "EndOfStream", raised)
    /\ yielded' = [yielded EXCEPT ![r] = Append(@, EmptyChunk)]
    /\ UNCHANGED <<m3u_profiles, channel, store, profile_pos, stream_index, persistent_lock,
                   attempts, active_profile, response, releases, sent>>

\* Lines 148-150: the read returns nothing, because the producer exited or
\* crashed, and the loop breaks into the finally.
ReadEnd(r, raised) ==
    /\ Resumable(r)
    /\ Finally(r, "EndOfStream", raised)
    /\ UNCHANGED <<m3u_profiles, channel, store, profile_pos, stream_index, persistent_lock,
                   attempts, active_profile, response, releases, sent, yielded>>

\* Line 148: the read raises; the exception passes through the finally.
ReadRaises(r, raised) ==
    /\ Resumable(r)
    /\ Finally(r, "ReadError", raised)
    /\ UNCHANGED <<m3u_profiles, channel, store, profile_pos, stream_index, persistent_lock,
                   attempts, active_profile, response, releases, sent, yielded>>

\* The client goes away and the server closes the response: close() on a
\* generator suspended at the yield (line 151) raises GeneratorExit there,
\* which runs the finally.
CloseSuspended(r, raised) ==
    /\ pc[r] = "suspended"
    /\ Finally(r, "ClientDisconnect", raised)
    /\ UNCHANGED <<m3u_profiles, channel, store, profile_pos, stream_index, persistent_lock,
                   attempts, active_profile, response, releases, sent, yielded>>

\* The same before the first chunk was asked for: close() on a generator that
\* never started only marks it finished; its body, the try statement of line
\* 146 included, is never entered.
CloseUnstarted(r) ==
    /\ pc[r] = "created"
    /\ cause' = [cause EXCEPT ![r] = "ClientDisconnect"]
    /\ pc' = [pc EXCEPT ![r] = "done"]
    /\ UNCHANGED <<m3u_profiles, channel, store, profile_pos, stream_index, persistent_lock,
                   attempts, active_profile, response, process, term_asked,
                   term_raised, releases, sent, yielded>>

\* Line 158: persistent_lock.release(); the generator is finished.
ReleaseLock(r) ==
    /\ pc[r] = "release"
    /\ store' = StoreAfterRelease(r, persistent_lock[r])
    /\ releases' = [releases EXCEPT ![r] = @ + 1]
    /\ pc' = [pc EXCEPT ![r] = "done"]
    /\ UNCHANGED <<m3u_profiles, channel, profile_pos, stream_index, persistent_lock, attempts,
                   active_profile, response, cause, process, term_asked, term_raised,
                   sent, yielded>>

\* ------------------------------------------------------- the lease running out
\* Positions at which a request can stay for longer than lock_timeout: the relay
\* blocks in reads and waits for the client without bound, and a finished
\* request stays finished.  The scan and the preparation of lines 43-139 wait
\* for nothing but database lookups and the start of the process, and are
\* taken to finish within the 120 seconds of the lease.
Unbounded == {"created", "suspended", "release", "done"}

\* The lease of the locks, in seconds (line 84).
lock_timeout == 120

\* A lock constructed without a lease: its key stays until it is released.
PersistentLock_NoTimeout(key) == [lock_key |-> key, lock_timeout |-> 0]

\* Line 84: PersistentLock(redis_client, lock_key, lock_timeout=120)
PersistentLock(key) == [lock_key |-> key, lock_timeout |-> lock_timeout]

\* The Lock Store drops a key whose time-to-live ran out; nothing in
\* stream_view renews it.
Expire(k) ==
    /\ store[k] # Free
    /\ PersistentLock(k).lock_timeout > 0
    /\ pc[store[k]] \in Unbounded
    /\ store' = [store EXCEPT ![k] = Free]
    /\ UNCHANGED <<m3u_profiles, channel, pc, profile_pos, stream_index, persistent_lock,
                   attempts, active_profile, response, cause, process, term_asked,
                   term_raised, releases, sent, yielded>>

\* ------------------------------------------------------------ specification
Next ==
    \/ \E r \in Requests, chan \in ChannelLookups : ResolveChannel(r, chan)
    \/ \E r \in Requests : SkipInactive(r)
    \/ \E r \in Requests, store_down \in BOOLEAN : AttemptSlot(r, store_down)
    \/ \E r \in Requests : NextProfile(r)
    \/ \E r \in Requests : NoAvailableProfiles(r)
    \/ \E r \in Requests, row \in PatternRows, fault \in PrepareFaults :
          Prepare(r, row, fault)
    \/ \E r \in Requests, started \in BOOLEAN : Launch(r, started)
    \/ \E r \in Requests : ReadChunk(r)
    \/ \E r \in Requests, raised \in BOOLEAN : ReadEnd(r, raised)
    \/ \E r \in Requests, raised \in BOOLEAN : ReadRaises(r, raised)
    \/ \E r \in Requests, raised \in BOOLEAN : CloseSuspended(r, raised)
    \/ \E r \in Requests : CloseUnstarted(r)
    \/ \E r \in Requests : ReleaseLock(r)
    \/ \E k \in Keys : Expire(k)

Spec == Init /\ [][Next]_vars

\* The relay of request r has not ended: its generator exists and is neither
\* finished nor closed.
RelayRunning(r) == pc[r] \in {"created", "suspended", "release"}

\* A lease runs out under a request whose relay has ended or never began.
ExpireEnded(k) ==
    /\ store[k] # Free
    /\ ~RelayRunning(store[k])
    /\ Expire(k)

\* The steps of the behaviours in which no lease runs out under a running
\* relay: Next with the lease restricted to ExpireEnded.
LeaseKeptNext ==
    \/ \E r \in Requests, chan \in ChannelLookups : ResolveChannel(r, chan)
    \/ \E r \in Requests : SkipInactive(r)
    \/ \E r \in Requests, store_down \in BOOLEAN : AttemptSlot(r, store_down)
    \/ \E r \in Requests : NextProfile(r)
    \/ \E r \in Requests : NoAvailableProfiles(r)
    \/ \E r \in Requests, row \in PatternRows, fault \in PrepareFaults :
          Prepare(r, row, fault)
    \/ \E r \in Requests, started \in BOOLEAN : Launch(r, started)
    \/ \E r \in Requests : ReadChunk(r)
    \/ \E r \in Requests, raised \in BOOLEAN : ReadEnd(r, raised)
    \/ \E r \in Requests, raised \in BOOLEAN : ReadRaises(r, raised)
    \/ \E r \in Requests, raised \in BOOLEAN : CloseSuspended(r, raised)
    \/ \E r \in Requests : CloseUnstarted(r)
    \/ \E r \in Requests : ReleaseLock(r)
    \/ \E k \in Keys : ExpireEnded(k)

LeaseKeptSpec == Init /\ [][LeaseKeptNext]_vars

\* The steps of stream_view between the acquired lock and the return of the
\* response (lines 96-139 and 161-164).
HandlerStep(r) ==
    \/ \E row \in PatternRows, fault \in PrepareFaults : Prepare(r, row, fault)
    \/ \E started \in BOOLEAN : Launch(r, started)

\* Time passes in the Lock Store, so a lease that can run out does; and the
\* thread that runs stream_view is scheduled until the view returns.  Nothing
\* is assumed about the client or the producer: a relay may stay suspended or
\* blocked in a read forever, and an abandoned generator is never resumed.
FairSpec ==
    /\ Spec
    /\ \A k \in Keys : WF_vars(Expire(k))
    /\ \A r \in Requests : WF_vars(HandlerStep(r))

\* ================================================================== claims
\* The request's key is in the Lock Store under the request's own token.
HoldsLock(r) == persistent_lock[r] # NoLock /\ store[persistent_lock[r]] = r

\* The HttpResponseServerError responses of stream_view.
ErrorResponses == {"NoStreamFound", "NoAvailableProfiles", "ErrorStarting",
                   "ErrorPreparing"}

\* The key and the result of the i-th acquire() of request r.
AttemptKey(r, i) == attempts[r][i][1]

AttemptResult(r, i) == attempts[r][i][2]

\* The slots of the active profiles.
ActiveKeys ==
    {k \in Keys : /\ k[1] \in DOMAIN m3u_profiles
                  /\ m3u_profiles[k[1]].is_active
                  /\ k[2] <= m3u_profiles[k[1]].max_streams}

\* The place of a profile in the order "default first, then the others in
\* database order".
Rank(id) == IF m3u_profiles[id].is_default THEN 0 ELSE id

\* ----------------------------------------------------------------------- C1
\* C1 (as claimed): for every request whose producer was launched and whose
\* StreamingHttpResponse was returned, however the relay ends, once it has
\* ended the process has been asked to terminate and the request's lock key
\* is no longer in the Lock Store under its token.
C1_RelayCleanup ==
    \A r \in Requests :
        (response[r] = "Streaming" /\ pc[r] = "done")
            => (term_asked[r] /\ ~HoldsLock(r))

\* ----------------------------------------------------------------------- C2
\* C2 (as claimed): whenever stream_view has returned an error response, the
\* key of the lock that request acquired is not left in the Lock Store.
C2_NoLeakOnError ==
    \A r \in Requests :
        (pc[r] = "done" /\ response[r] \in ErrorResponses) => ~HoldsLock(r)

\* ----------------------------------------------------------------------- C3
\* C3: an acquire() on a key that is held is refused and leaves the holder in
\* place; a request takes itself to hold a key only if the key was absent and
\* is now stored under its token; and an acquire() on an absent key (after a
\* release, say) is granted.  So two requests racing for one (profile, index)
\* never both observe success.
C3_MutualExclusion ==
    [][\A r \in Requests :
        Len(attempts'[r]) = Len(attempts[r]) + 1 =>
            LET k == attempts'[r][Len(attempts'[r])][1]
                result == attempts'[r][Len(attempts'[r])][2]
            IN  /\ persistent_lock'[r] # NoLock =>
                      (persistent_lock'[r] = k /\ store[k] = Free /\ store'[k] = r)
                /\ store[k] # Free =>
                      (persistent_lock'[r] = NoLock /\ store'[k] = store[k])
                /\ (store[k] = Free /\ result # "raised") =>
                      persistent_lock'[r] = k]_vars

\* A request was refused a key that another request holds.
C3_Witness ==
    \E r1, r2 \in Requests :
        /\ r1 # r2
        /\ HoldsLock(r1)
        /\ \E i \in DOMAIN attempts[r2] :
              attempts[r2][i] = <<persistent_lock[r1], "in_use">>

\* ----------------------------------------------------------------------- C4
\* C4: when subprocess.Popen raises, the step that produces the 'Error
\* starting stream' response leaves the request's key absent from the Lock
\* Store and no process behind.
C4_LaunchFailureReleases ==
    [][\A r \in Requests :
        (response[r] = "none" /\ response'[r] = "ErrorStarting") =>
            /\ persistent_lock[r] # NoLock
            /\ store'[persistent_lock[r]] = Free
            /\ process'[r] = "none"
            /\ pc'[r] = "done"]_vars

\* A launch failed after a lock was acquired, and the key is gone.
C4_Witness ==
    \E r \in Requests :
        /\ response[r] = "ErrorStarting"
        /\ persistent_lock[r] # NoLock
        /\ store[persistent_lock[r]] = Free
        /\ process[r] = "none"

\* ----------------------------------------------------------------------- C5
\* C5: the scan tries the default profile first and then the others in
\* database order; no acquire() is ever made on a slot of an inactive
\* profile; the selected profile is the one of the first granted acquire(),
\* and every slot of every active profile before it was tried and refused.
C5_AllocatorPriority ==
  [](\A r \in Requests :
        /\ \A i \in DOMAIN attempts[r] : m3u_profiles[AttemptKey(r, i)[1]].is_active
        /\ \A i, j \in DOMAIN attempts[r] :
              i < j => Rank(AttemptKey(r, i)[1]) <= Rank(AttemptKey(r, j)[1])
        /\ persistent_lock[r] # NoLock =>
              /\ attempts[r] # <<>>
              /\ attempts[r][Len(attempts[r])] = <<persistent_lock[r], "acquired">>
              /\ \A i \in 1..(Len(attempts[r]) - 1) : AttemptResult(r, i) # "acquired"
              /\ m3u_profiles[persistent_lock[r][1]].is_active
              /\ \A k \in ActiveKeys :
                    Rank(k[1]) < Rank(persistent_lock[r][1]) =>
                        \E i \in DOMAIN attempts[r] : attempts[r][i] = <<k, "in_use">>)

\* A request was given a slot of a non-default profile although the default
\* profile is active: all its slots had been refused.
C5_Witness ==
    \E r \in Requests :
        /\ persistent_lock[r] # NoLock
        /\ ~m3u_profiles[persistent_lock[r][1]].is_default
        /\ default_profile.is_active

\* ----------------------------------------------------------------------- C6
\* C6: a request whose every acquire() was refused (or that found no active
\* profile) returns 'No available profiles for the stream'; it has then tried
\* every slot of every active profile, holds no key and has no process; and
\* neither a refused acquire() nor that return changes the Lock Store.
C6_Exhaustion ==
    [][\A r \in Requests :
        /\ response'[r] = "NoAvailableProfiles" =>
              /\ {attempts'[r][i][1] : i \in DOMAIN attempts'[r]} = ActiveKeys
              /\ \A i \in DOMAIN attempts'[r] : attempts'[r][i][2] = "in_use"
              /\ persistent_lock'[r] = NoLock
              /\ process'[r] = "none"
              /\ \A k \in Keys : store'[k] # r
        /\ (response[r] = "none" /\ response'[r] = "NoAvailableProfiles") =>
              store' = store
        /\ ( /\ Len(attempts'[r]) = Len(attempts[r]) + 1
             /\ attempts'[r][Len(attempts'[r])][2] = "in_use" ) => store' = store
        /\ ( /\ pc'[r] \notin {"start", "scan"}
             /\ channel'[r] = "ok"
             /\ default_profile # NoProfile
             /\ \A i \in DOMAIN attempts'[r] : attempts'[r][i][2] = "in_use" ) =>
              response'[r] = "NoAvailableProfiles"]_vars

\* A request got 'No available profiles' after being refused slots that
\* another request holds.
C6_Witness ==
    \E r1, r2 \in Requests :
        /\ r1 # r2
        /\ response[r2] = "NoAvailableProfiles"
        /\ attempts[r2] # <<>>
        /\ HoldsLock(r1)

\* ----------------------------------------------------------------------- C7
\* The account and the profile row of the end-to-end scenario.
ScenarioAccount ==
    <<[id |-> 1, is_default |-> TRUE, is_active |-> TRUE, max_streams |-> 1]>>

ScenarioRow == [search_pattern |-> ".*", replace_pattern |-> <<"$1", "proxy">>]

\* C7 (as claimed): in the scenario a request that acquired slot (default, 1)
\* and read the scenario's patterns completes the rewrite, launches the
\* process and streams, and when it is finished its lock is free.
C7_EndToEnd ==
    m3u_profiles = ScenarioAccount =>
        \A r \in Requests :
            (active_profile[r] = ScenarioRow /\ pc[r] = "done") =>
                /\ persistent_lock[r] = <<1, 1>>
                /\ response[r] = "Streaming"
                /\ process[r] # "none"
                /\ ~HoldsLock(r)

\* ----------------------------------------------------------------------- C8
\* C8: an acquire() that raised is the request's last one; the request then
\* ended with the 'Error preparing stream' response, not 'No available
\* profiles', holds no key and has no process.
C8_LockStoreFailure ==
    \A r \in Requests :
        \A i \in DOMAIN attempts[r] :
            AttemptResult(r, i) = "raised" =>
                /\ i = Len(attempts[r])
                /\ pc[r] = "done"
                /\ response[r] = "ErrorPreparing"
                /\ cause[r] = "LockStoreError"
                /\ persistent_lock[r] = NoLock
                /\ process[r] = "none"
                /\ \A k \in Keys : store[k] # r

\* The Lock Store failed on a request's second or later acquire(), after a
\* slot had been refused, with slots left untried.
C8_Witness ==
    \E r \in Requests :
        /\ Len(attempts[r]) >= 2
        /\ AttemptResult(r, Len(attempts[r])) = "raised"
        /\ AttemptResult(r, 1) = "in_use"
        /\ {AttemptKey(r, i) : i \in DOMAIN attempts[r]} # ActiveKeys

\* ----------------------------------------------------------------------- C9
\* C9: once proc.terminate() has been called, whether or not it raised, the
\* generator is at the release or has made it: a finished cleanup called
\* release() once and the key is no longer held by the request, and the
\* release step of a request that still owned its key leaves the key absent.
C9_TerminateFailure ==
    [][\A r \in Requests :
        /\ term_asked'[r] =>
              \/ pc'[r] = "release"
              \/ /\ pc'[r] = "done"
                 /\ releases'[r] = 1
                 /\ ~HoldsLock(r)'
        /\ (pc[r] = "release" /\ pc'[r] = "done" /\ HoldsLock(r)) =>
              store'[persistent_lock[r]] = Free]_vars

\* terminate() raised, and the cleanup finished with the key released.
C9_Witness ==
    \E r \in Requests :
        /\ term_raised[r]
        /\ pc[r] = "done"
        /\ releases[r] = 1
        /\ store[persistent_lock[r]] = Free

\* ---------------------------------------------------------------------- C10
\* C10: a request whose channel number resolves to no channel, or whose
\* channel has no streams, ends with a server error without any acquire(),
\* without a process, holding no key, and the step that ends it leaves the
\* Lock Store unchanged.
C10_ShortCircuit ==
    [][\A r \in Requests :
        channel'[r] \in {"missing", "no_streams"} =>
            /\ pc'[r] = "done"
            /\ response'[r] \in ErrorResponses
            /\ attempts'[r] = <<>>
            /\ persistent_lock'[r] = NoLock
            /\ process'[r] = "none"
            /\ \A k \in Keys : store'[k] # r
            /\ channel[r] = "none" => store' = store]_vars

\* A channel without streams was refused while another request holds a key.
C10_Witness ==
    \E r1, r2 \in Requests :
        /\ r1 # r2
        /\ channel[r2] = "no_streams"
        /\ response[r2] = "NoStreamFound"
        /\ HoldsLock(r1)

\* ---------------------------------------------------------------------- C11
\* The relay is between the return of the response and its finally-block.
Relaying(r) == pc[r] \in {"created", "suspended"}

\* C11: nothing in the relay renews the lock.  A relay whose key has left the
\* Lock Store under its token never gets it back, whatever it does next, and
\* losing the lease leaves its producer process running.
C11_NoRenewal ==
    [][\A r \in Requests :
          (Relaying(r) /\ ~HoldsLock(r))
              => /\ ~HoldsLock(r)'
                 /\ process[r] = "running"]_vars

\* Two requests relay from the same slot, each with its producer running: the
\* first lost its lease and the second acquired the key after that.
C11_Witness ==
    \E r1, r2 \in Requests :
        /\ r1 # r2
        /\ persistent_lock[r1] # NoLock
        /\ persistent_lock[r1] = persistent_lock[r2]
        /\ Relaying(r1) /\ process[r1] = "running"
        /\ Relaying(r2) /\ process[r2] = "running"
        /\ ~HoldsLock(r1) /\ HoldsLock(r2)
        /\ sent[r1] > 0

\* ---------------------------------------------------------------------- C12
\* The recorded acquire() calls of request r are in slot order: within an
\* active profile the indices are 1, 2, ... up to at most max_streams,
\* starting again at 1 with each profile, and a successful call is the last.
InSlotOrder(r) ==
    LET n == Len(attempts[r])
    IN  /\ \A i \in 1..n :
              LET k == AttemptKey(r, i)
              IN  /\ m3u_profiles[k[1]].is_active
                  /\ k[2] <= m3u_profiles[k[1]].max_streams
                  /\ IF i = 1 \/ AttemptKey(r, i - 1)[1] # k[1]
                     THEN k[2] = 1
                     ELSE k[2] = AttemptKey(r, i - 1)[2] + 1
                  /\ AttemptResult(r, i) = "acquired" => i = n
        /\ persistent_lock[r] # NoLock
              => /\ n >= 1
                 /\ AttemptResult(r, n) = "acquired"
                 /\ AttemptKey(r, n) = persistent_lock[r]

\* C12: the acquire() calls of a request go through the slots of an active
\* profile in strictly increasing order from 1, never beyond max_streams; the
\* scan stops at the first success, so the key returned is the lowest index
\* of its profile that could be acquired and a request with a lock makes no
\* further acquire(); and a request never has two keys in the Lock Store.
C12_SlotOrder ==
    /\ [](\A r \in Requests :
            /\ InSlotOrder(r)
            /\ \A k \in Keys : store[k] = r => k = persistent_lock[r])
    /\ [][\A r \in Requests :
             persistent_lock[r] # NoLock
                 => /\ attempts'[r] = attempts[r]
                    /\ persistent_lock'[r] = persistent_lock[r]]_vars

\* A request found slot 1 of a profile in use, acquired slot 2 of the same
\* profile and holds it.
C12_Witness ==
    \E r \in Requests :
        /\ Len(attempts[r]) >= 2
        /\ AttemptResult(r, 1) = "in_use"
        /\ AttemptKey(r, 2) = <<AttemptKey(r, 1)[1], 2>>
        /\ AttemptResult(r, 2) = "acquired"
        /\ HoldsLock(r)

\* ---------------------------------------------------------------------- C13
\* One step of the scan of lines 72-101 by request r.
ScanStep(r) ==
    \/ SkipInactive(r)
    \/ \E store_down \in BOOLEAN : AttemptSlot(r, store_down)
    \/ NextProfile(r)
    \/ NoAvailableProfiles(r)

\* The request left the scan with the lock it acquired, with the
\* "no available profiles" response, or with the error of a failed acquire().
ScanOutcome(r) ==
    \/ /\ persistent_lock[r] # NoLock
       /\ Cardinality({i \in 1..Len(attempts[r]) : AttemptResult(r, i) = "acquired"}) = 1
    \/ /\ persistent_lock[r] = NoLock
       /\ response[r] = "NoAvailableProfiles"
    \/ /\ persistent_lock[r] = NoLock
       /\ response[r] = "ErrorPreparing" /\ cause[r] = "LockStoreError"

\* What is left of the scan: the profiles still to visit and the slots of the
\* current one still to try.
ScanRemaining(r) ==
    (Len(ScanOrder) + 1 - profile_pos[r]) * (MaxStreams + 1)
        + (IF Scanning(r) /\ CurrentProfile(r).is_active
           THEN CurrentProfile(r).max_streams - stream_index[r] ELSE 0)

\* The request is past the scan of lines 72-101, which it had entered.
PastScan(r) ==
    /\ channel[r] = "ok"
    /\ default_profile # NoProfile
    /\ pc[r] \notin {"start", "scan"}

\* No key was tried twice, and no more keys than the active profiles have.
NoRetry(r) ==
    /\ \A i, j \in 1..Len(attempts[r]) :
          i # j => AttemptKey(r, i) # AttemptKey(r, j)
    /\ Len(attempts[r]) <= Cardinality(ActiveKeys)

\* C13: the scan never waits and never retries.  A request tries no key
\* twice and makes at most as many acquire() calls as the active profiles have
\* slots; while it scans it can always take its next step, whatever the Lock
\* Store holds, and every step it takes brings the scan nearer to its end;
\* once past the scan it has one acquired lock, the "no available profiles"
\* response or the error of a failed acquire().
C13_NoWaitNoRetry ==
    /\ [](\A r \in Requests :
            /\ NoRetry(r)
            /\ pc[r] = "scan" => ENABLED ScanStep(r)
            /\ PastScan(r) => ScanOutcome(r))
    /\ [][\A r \in Requests :
             (pc[r] = "scan" /\ <<profile_pos[r], stream_index[r]>>
                                  # <<profile_pos[r], stream_index[r]>>')
                 => (pc'[r] # "scan" \/ ScanRemaining(r)' < ScanRemaining(r))]_vars

\* A request tried every slot of the active profiles, the last one of at
\* least two with success.
C13_Witness ==
    \E r \in Requests :
        /\ Len(attempts[r]) = Cardinality(ActiveKeys)
        /\ Len(attempts[r]) >= 2
        /\ pc[r] # "scan"
        /\ persistent_lock[r] # NoLock

\* ---------------------------------------------------------------------- C14
\* C14: every held slot is eventually reclaimable.  A key that is in the Lock
\* Store is eventually absent from it, because its holder released it or, at
\* the latest, because its lease ran out, even when the holder never runs its
\* cleanup.
C14_Reclaimable ==
    \A k \in Keys : (store[k] # Free) ~> (store[k] = Free)

\* The key of a finished request that never called release() has left the
\* Lock Store and the other request has acquired it.
C14_Witness ==
    \E r1, r2 \in Requests :
        /\ r1 # r2
        /\ pc[r1] = "done" /\ releases[r1] = 0
        /\ persistent_lock[r1] # NoLock
        /\ persistent_lock[r2] = persistent_lock[r1]
        /\ HoldsLock(r2)

\* ---------------------------------------------------------------------- C15
\* The request released through the handler of a failed launch (line 137).
ReleasedAtLaunch(r) ==
    /\ response[r] = "ErrorStarting"
    /\ process[r] = "none"
    /\ ~term_asked[r]

\* The request released through the finally of its relay (line 158).
ReleasedAtCleanup(r) ==
    /\ response[r] = "Streaming"
    /\ process[r] # "none"
    /\ term_asked[r]
    /\ pc[r] = "done"

\* C15: no request calls release() twice.  A request that called it had
\* acquired the lock it released, the key of its one successful acquire(),
\* and called it on exactly one of the two paths: the failed launch or the
\* cleanup of the relay.
C15_ReleaseOnce ==
    \A r \in Requests :
        /\ releases[r] <= 1
        /\ releases[r] = 1
              => /\ persistent_lock[r] # NoLock
                 /\ \A i \in 1..Len(attempts[r]) :
                       AttemptKey(r, i) = persistent_lock[r]
                           <=> AttemptResult(r, i) = "acquired"
                 /\ ReleasedAtLaunch(r) \/ ReleasedAtCleanup(r)
                 /\ ~(ReleasedAtLaunch(r) /\ ReleasedAtCleanup(r))

\* One request released after a failed launch and the other in the cleanup of
\* its relay, each once.
C15_Witness ==
    \E r1, r2 \in Requests :
        /\ releases[r1] = 1 /\ ReleasedAtLaunch(r1)
        /\ releases[r2] = 1 /\ ReleasedAtCleanup(r2)

\* ---------------------------------------------------------------------- C16
\* The first n chunks of the producer's output, in order.
Output(n) == [i \in 1..n |-> Chunk(i)]

\* C16: the relay is forward-only and single-pass.  What a request has
\* yielded is, chunk for chunk and in order, what its non-empty reads
\* returned; the empty chunk is never yielded; and a relay that has left its
\* loop yields nothing more.
C16_ForwardOnly ==
    /\ [](\A r \in Requests :
            /\ yielded[r] = Output(sent[r])
            /\ \A i \in 1..Len(yielded[r]) : yielded[r][i] # EmptyChunk)
    /\ [][\A r \in Requests :
             /\ ~Resumable(r) => yielded'[r] = yielded[r]
             /\ \/ yielded'[r] = yielded[r]
                \/ yielded'[r] = Append(yielded[r], Chunk(Len(yielded[r]) + 1))]_vars

\* A relay yielded every chunk of the producer's output, at least two, and
\* ended at the empty read.
C16_Witness ==
    \E r \in Requests :
        /\ pc[r] = "done"
        /\ cause[r] = "EndOfStream"
        /\ Len(yielded[r]) >= 2
        /\ yielded[r] = Output(MaxChunks)

\* ---------------------------------------------------------------------- C17
\* The request has a launched producer process and its cleanup, the finally
\* of lines 152-158, has not run to its end.
Occupies(r) ==
    /\ process[r] # "none"
    /\ releases[r] = 0

\* The occupied relays of a profile.
Occupants(id) == {r \in Requests : Occupies(r) /\ persistent_lock[r][1] = id}

\* C17 (as claimed): in the behaviours in which no lease runs out while its
\* relay is running, no two requests with a launched process and no cleanup
\* yet use the same slot, and no profile has more of them than max_streams.
C17_CapacityBound ==
    /\ \A r1, r2 \in Requests :
          (r1 # r2 /\ Occupies(r1) /\ Occupies(r2))
              => persistent_lock[r1] # persistent_lock[r2]
    /\ \A id \in DOMAIN m3u_profiles :
          Cardinality(Occupants(id)) <= m3u_profiles[id].max_streams

\* ---------------------------------------------------------------------- C18
\* C18: in the cleanup of a relay the lock is released only after
\* proc.terminate() has been called, whether or not that call raised.  A
\* relay about to release, and a relay that has released, has asked its
\* process to terminate; so a request that has a slot which another request
\* released never finds that request's process not yet asked to terminate.
C18_CleanupOrder ==
    \A r \in Requests :
        /\ pc[r] = "release" => term_asked[r]
        /\ (response[r] = "Streaming" /\ releases[r] >= 1) => term_asked[r]
        /\ \A r2 \in Requests :
              (/\ r2 # r
               /\ releases[r] >= 1
               /\ persistent_lock[r] # NoLock
               /\ persistent_lock[r2] = persistent_lock[r])
                  => ~(process[r] = "running" /\ ~term_asked[r])

\* A relay called terminate(), which raised, and released its lock; its
\* process still runs and the other request has acquired the released slot.
C18_Witness ==
    \E r1, r2 \in Requests :
        /\ r1 # r2
        /\ response[r1] = "Streaming"
        /\ releases[r1] = 1
        /\ term_asked[r1] /\ term_raised[r1]
        /\ persistent_lock[r2] = persistent_lock[r1]
        /\ HoldsLock(r2)

\* ---------------------------------------------------------------------- C19
\* No row of the account has is_default set.
NoDefault == \A i \in DOMAIN m3u_profiles : ~m3u_profiles[i].is_default

\* C19: with an account that has no default profile, no request ever calls
\* acquire(), whatever active profiles with free slots the account has: a
\* request past its first step has ended with an error response, and the
\* Lock Store stays as it was, empty.
C19_MissingDefault ==
    NoDefault =>
        /\ store = [k \in Keys |-> Free]
        /\ \A r \in Requests :
              /\ attempts[r] = <<>>
              /\ persistent_lock[r] = NoLock
              /\ process[r] = "none"
              /\ pc[r] # "start"
                    => (pc[r] = "done" /\ response[r] \in ErrorResponses)

\* A request for an existing channel with a stream ended with the error
\* response although an active non-default profile had all its slots free.
C19_Witness ==
    \E r \in Requests :
        /\ NoDefault
        /\ \E i \in DOMAIN m3u_profiles : m3u_profiles[i].is_active
        /\ channel[r] = "ok"
        /\ pc[r] = "done"
        /\ response[r] = "ErrorPreparing"
        /\ cause[r] = "NoDefaultProfile"

\* ---------------------------------------------------------------------- C20
\* The acquire() calls of the request that returned true.
Acquired(r) == {i \in 1..Len(attempts[r]) : AttemptResult(r, i) = "acquired"}

\* The responses of requests that ended before line 133: unknown channel,
\* no stream, no free slot, or an error while preparing.
EndedBeforeLaunch == {"ErrorPreparing", "NoStreamFound", "NoAvailableProfiles"}

\* C20: a process implies a lock.  The step that starts a producer process
\* is taken by a request that has acquired exactly one lock and has not
\* released it; a request with a process keeps that one process and never
\* starts another; and no request that ended with an unknown channel, no
\* stream, no free slot or a preparation error has a process.
C20_ProcessImpliesLock ==
    /\ [](\A r \in Requests :
            /\ response[r] \in EndedBeforeLaunch => process[r] = "none"
            /\ process[r] # "none"
                  => /\ persistent_lock[r] # NoLock
                     /\ Cardinality(Acquired(r)) = 1)
    /\ [][\A r \in Requests :
             /\ (process[r] = "none" /\ process'[r] # "none")
                   => /\ process'[r] = "running"
                      /\ persistent_lock[r] # NoLock
                      /\ Cardinality(Acquired(r)) = 1
                      /\ releases[r] = 0
                      /\ HoldsLock(r)
             /\ process[r] # "none"
                   => /\ process'[r] # "none"
                      /\ process'[r] = "running" => process[r] = "running"]_vars

\* One request has just started its producer, holding the one lock it
\* acquired; the other ended with no free slot and has no process.
C20_Witness ==
    \E r1, r2 \in Requests :
        /\ pc[r1] = "created" /\ process[r1] = "running"
        /\ HoldsLock(r1) /\ releases[r1] = 0
        /\ response[r2] = "NoAvailableProfiles" /\ process[r2] = "none"

====
